---- MODULE Spec2Model ----
(***************************************************************************)
(* A model of the ChartCreator component of src/components/Dashboard.tsx:  *)
(* the Dataset (`data`), the two entry fields, the selected template, the  *)
(* FileReader reads in flight, and the handlers that change them.          *)
(*                                                                         *)
(* A JavaScript string is a sequence of one-character strings, so that     *)
(* split, trim, Number and the template literal are computed character by  *)
(* character.  A JavaScript number is a record: a finite integer n, NaN,   *)
(* or an infinity of sign n.  The texts of the model hold no '.', no       *)
(* exponent and no radix prefix in a value field, so every finite value is *)
(* an integer far below 2^53.                                              *)
(***************************************************************************)
EXTENDS Integers, Sequences, FiniteSets, TLC

\* ------------------------------------------------------------------------
\* Bounds of the model.
\* ------------------------------------------------------------------------
\* Longest Dataset that addDataPoint still appends to.
MaxData == 2
\* Most FileReader reads in flight at once.
MaxPending == 2
\* Longest file content enumerated character by character in SpecCsv.
MaxText == 5

\* ------------------------------------------------------------------------
\* JavaScript numbers.
\* ------------------------------------------------------------------------
Num(n) == [kind |-> "finite", n |-> n]
NaN == [kind |-> "NaN", n |-> 0]
PosInfinity == [kind |-> "Infinity", n |-> 1]
NegInfinity == [kind |-> "Infinity", n |-> -1]

isNaN(v) == v.kind = "NaN"

\* ------------------------------------------------------------------------
\* JavaScript strings.
\* ------------------------------------------------------------------------
DigitChars == <<"0", "1", "2", "3", "4", "5", "6", "7", "8", "9">>
IsDigit(c) == \E d \in 1..10 : DigitChars[d] = c
DigitValue(c) == (CHOOSE d \in 1..10 : DigitChars[d] = c) - 1

\* WhiteSpace and LineTerminator characters, as String.prototype.trim and
\* the /\s/ character class know them (those that the model's texts use).
IsWhiteSpace(c) == c \in {" ", "\t", "\r", "\n"}

RECURSIVE trimStart(_)
trimStart(s) ==
  IF s = <<>> THEN s
  ELSE IF IsWhiteSpace(Head(s)) THEN trimStart(Tail(s)) ELSE s

RECURSIVE trimEnd(_)
trimEnd(s) ==
  IF s = <<>> THEN s
  ELSE IF IsWhiteSpace(s[Len(s)]) THEN trimEnd(SubSeq(s, 1, Len(s) - 1)) ELSE s

trim(s) == trimEnd(trimStart(s))

\* String.prototype.split(sep) with a one-character separator: every
\* occurrence of sep ends a piece, and the text after the last one is the
\* last piece (so the empty string splits into one empty piece).
RECURSIVE splitFrom(_, _, _, _)
splitFrom(s, sep, piece, pieces) ==
  IF s = <<>> THEN Append(pieces, piece)
  ELSE IF Head(s) = sep
       THEN splitFrom(Tail(s), sep, <<>>, Append(pieces, piece))
       ELSE splitFrom(Tail(s), sep, Append(piece, Head(s)), pieces)

split(s, sep) == splitFrom(s, sep, <<>>, <<>>)

RECURSIVE join(_, _)
join(pieces, sep) ==
  IF pieces = <<>> THEN <<>>
  ELSE IF Len(pieces) = 1 THEN pieces[1]
  ELSE pieces[1] \o sep \o join(Tail(pieces), sep)

RECURSIVE DecimalValue(_)
DecimalValue(digits) ==
  IF digits = <<>> THEN 0
  ELSE 10 * DecimalValue(SubSeq(digits, 1, Len(digits) - 1))
         + DigitValue(digits[Len(digits)])

InfinityText == <<"I", "n", "f", "i", "n", "i", "t", "y">>

\* Number(string): StringToNumber.  White space is stripped; the empty
\* string is 0; an optional sign is followed by Infinity or by decimal
\* digits; anything else is NaN.
Number(s) ==
  LET t == trim(s) IN
  IF t = <<>> THEN Num(0)
  ELSE LET signed == Head(t) \in {"+", "-"}
           sign == IF Head(t) = "-" THEN -1 ELSE 1
           body == IF signed THEN Tail(t) ELSE t
       IN IF body = InfinityText
          THEN (IF sign = 1 THEN PosInfinity ELSE NegInfinity)
          ELSE IF body # <<>> /\ \A i \in 1..Len(body) : IsDigit(body[i])
          THEN Num(sign * DecimalValue(body))
          ELSE NaN

RECURSIVE DecimalDigits(_)
DecimalDigits(n) ==
  IF n < 10 THEN <<DigitChars[n + 1]>>
  ELSE DecimalDigits(n \div 10) \o <<DigitChars[(n % 10) + 1]>>

\* `${value}`: Number::toString of a value.
NumberToString(v) ==
  IF v.kind = "NaN" THEN <<"N", "a", "N">>
  ELSE IF v.kind = "Infinity"
  THEN (IF v.n < 0 THEN <<"-", "I", "n", "f", "i", "n", "i", "t", "y">> ELSE InfinityText)
  ELSE IF v.n < 0 THEN <<"-">> \o DecimalDigits(0 - v.n)
  ELSE DecimalDigits(v.n)

UpperChars == <<"A", "B", "C", "D", "E", "F", "G", "H", "I", "J", "K", "L", "M", "N", "O", "P", "Q", "R", "S", "T", "U", "V", "W", "X", "Y", "Z">>
LowerChars == <<"a", "b", "c", "d", "e", "f", "g", "h", "i", "j", "k", "l", "m", "n", "o", "p", "q", "r", "s", "t", "u", "v", "w", "x", "y", "z">>

LowerChar(c) ==
  IF \E k \in 1..26 : UpperChars[k] = c
  THEN LowerChars[CHOOSE k \in 1..26 : UpperChars[k] = c]
  ELSE c

toLowerCase(s) == [i \in 1..Len(s) |-> LowerChar(s[i])]

\* replace(/\s+/g, '-'): every maximal run of white space becomes one hyphen.
RECURSIVE replaceSpaces(_)
replaceSpaces(s) ==
  IF s = <<>> THEN <<>>
  ELSE IF IsWhiteSpace(Head(s))
       THEN <<"-">> \o replaceSpaces(trimStart(s))
       ELSE <<Head(s)>> \o replaceSpaces(Tail(s))

\* ------------------------------------------------------------------------
\* The templates.
\* ------------------------------------------------------------------------
DataPoint(name, value) == [name |-> name, value |-> Num(value)]

templates == <<
  [name |-> <<"M", "o", "n", "t", "h", "l", "y", " ", "S", "a", "l", "e", "s">>,
   example |-> << DataPoint(<<"J", "a", "n">>, 1200), DataPoint(<<"F", "e", "b">>, 1900),
                  DataPoint(<<"M", "a", "r">>, 1600), DataPoint(<<"A", "p", "r">>, 2100) >>],
  [name |-> <<"P", "r", "o", "d", "u", "c", "t", " ", "C", "a", "t", "e", "g", "o", "r", "i", "e", "s">>,
   example |-> << DataPoint(<<"E", "l", "e", "c", "t", "r", "o", "n", "i", "c", "s">>, 5400), DataPoint(<<"C", "l", "o", "t", "h", "i", "n", "g">>, 3200),
                  DataPoint(<<"B", "o", "o", "k", "s">>, 2100), DataPoint(<<"H", "o", "m", "e">>, 4300) >>],
  [name |-> <<"W", "e", "e", "k", "l", "y", " ", "T", "r", "a", "f", "f", "i", "c">>,
   example |-> << DataPoint(<<"M", "o", "n">>, 2500), DataPoint(<<"T", "u", "e">>, 3100),
                  DataPoint(<<"W", "e", "d">>, 3800), DataPoint(<<"T", "h", "u">>, 3600),
                  DataPoint(<<"F", "r", "i">>, 3200) >>]
>>

Templates == 1..Len(templates)

\* selectedTemplate = null
NoTemplate == 0

\* ------------------------------------------------------------------------
\* The CSV parser of reader.onload.
\* ------------------------------------------------------------------------
\* parseLine with the line split at its first comma only, the value text
\* being all that follows it.
parseLineSplitOnce(rawLine) ==
  LET line == trim(rawLine) IN
  IF line = <<>> THEN <<>>
  ELSE LET fields == split(line, ",")
           name == trim(fields[1])
           value == IF Len(fields) < 2 THEN NaN
                    ELSE Number(trim(join(Tail(fields), <<",">>)))
       IN IF ~isNaN(value) THEN << [name |-> name, value |-> value] >>
          ELSE <<>>

\* One line of the loop: the rows it pushes (none or one).
parseLine(rawLine) ==
  LET line == trim(rawLine) IN
  IF line = <<>> THEN <<>>
  ELSE LET fields == split(line, ",")
           name == trim(fields[1])
           value == IF Len(fields) < 2 THEN NaN ELSE Number(trim(fields[2]))
       IN IF ~isNaN(value) THEN << [name |-> name, value |-> value] >>
          ELSE <<>>

\* for (let i = 1; i < lines.length; i++): lines[0] is lines[1] here.
RECURSIVE parseFrom(_, _, _)
parseFrom(lines, i, newData) ==
  IF i > Len(lines) THEN newData
  ELSE parseFrom(lines, i + 1, newData \o parseLine(lines[i]))

\* parseCsv with the loop starting at the header line.
parseCsvWithHeader(content) == parseFrom(split(content, "\n"), 1, <<>>)

parseCsv(content) == parseFrom(split(content, "\n"), 2, <<>>)

\* ------------------------------------------------------------------------
\* The file downloadTemplate offers for a template.
\* ------------------------------------------------------------------------
\* csvHeader without its line break.
csvHeaderUnterminated == <<"n", "a", "m", "e", ",", "v", "a", "l", "u", "e">>

csvHeader == <<"n", "a", "m", "e", ",", "v", "a", "l", "u", "e", "\n">>

templateRow(point) == point.name \o <<",">> \o NumberToString(point.value)

templateCsv(t) ==
  csvHeader
    \o join([i \in 1..Len(templates[t].example) |->
               templateRow(templates[t].example[i])], <<"\n">>)

templateFileName(t) ==
  replaceSpaces(toLowerCase(templates[t].name)) \o <<"-", "t", "e", "m", "p", "l", "a", "t", "e", ".", "c", "s", "v">>

NoDownload == [name |-> <<>>, content |-> <<>>]

templateDownload(t) == [name |-> templateFileName(t), content |-> templateCsv(t)]

\* ------------------------------------------------------------------------
\* What the user can type and select.
\* ------------------------------------------------------------------------
\* Texts typed into the Label field.
TypedNames == { <<>>, <<"a">> }

\* Texts typed into the Value field.
TypedValues == { <<"-", "3">>, <<"x">> }

\* The value an <input type="number"> reports for the typed text: the text
\* when it is a valid floating-point number, the empty string otherwise.
numberInputValue(text) ==
  LET body == IF text # <<>> /\ Head(text) = "-" THEN Tail(text) ELSE text IN
  IF body # <<>> /\ \A i \in 1..Len(body) : IsDigit(body[i]) THEN text ELSE <<>>

\* The CSV example of the specification: a non-numeric row, a row with an
\* empty label.
SpecExampleFile == <<"n", "a", "m", "e", ",", "v", "a", "l", "u", "e", "\n", "J", "a", "n", ",", "1", "2", "0", "0", "\n", "F", "e", "b", ",", "a", "b", "c", "\n", ",", "3", "0", "0", "\n", "M", "a", "r", ",", "1", "6", "0", "0">>
\* A row whose value is the literal Infinity.
InfinityFile == <<"n", "a", "m", "e", ",", "v", "a", "l", "u", "e", "\n", "x", ",", "I", "n", "f", "i", "n", "i", "t", "y">>
\* A row with three fields, a blank line, a row with one field.
ThreeFieldFile == <<"n", "a", "m", "e", ",", "v", "a", "l", "u", "e", "\n", "q", ",", "1", ",", "2", "\n", " ", " ", "\n", "r">>
\* A file with a header only.
HeaderOnlyFile == <<"7", ",", "7">>

\* The files the user selects in Spec.
SampleFiles == { InfinityFile, ThreeFieldFile }

\* Characters of the file contents enumerated in SpecCsv.
CsvChars == { "a", "1", "-", ",", " ", "\n" }

BoundedTexts == UNION { [1..n -> CsvChars] : n \in 0..MaxText }

CsvTexts ==
  BoundedTexts \cup SampleFiles \cup { SpecExampleFile }
    \cup { HeaderOnlyFile } \cup { templateCsv(t) : t \in Templates }

\* ------------------------------------------------------------------------
\* The state of the component.
\* ------------------------------------------------------------------------
VARIABLES
  data,              \* useState<DataPoint[]>: the Dataset
  newName,           \* useState: the Label field
  newValue,          \* useState: the Value field
  selectedTemplate,  \* useState<Template | null>: NoTemplate or an index
  pending,           \* contents of the FileReader reads in flight, oldest first
  download,          \* the file the last handler offered, or NoDownload
  alerted,           \* whether the last handler raised alert()
  lastOp             \* the last handler that ran, with its argument

vars == << data, newName, newValue, selectedTemplate, pending, download,
           alerted, lastOp >>

Op(op, arg, text) == [op |-> op, arg |-> arg, text |-> text]

Init ==
  /\ data = <<>>
  /\ newName = <<>>
  /\ newValue = <<>>
  /\ selectedTemplate = NoTemplate
  /\ pending = <<>>
  /\ download = NoDownload
  /\ alerted = FALSE
  /\ lastOp = Op("init", 0, <<>>)

\* onChange of the Label field.
setNewName(text) ==
  /\ newName' = text
  /\ download' = NoDownload
  /\ alerted' = FALSE
  /\ lastOp' = Op("setNewName", 0, <<>>)
  /\ UNCHANGED << data, newValue, selectedTemplate, pending >>

\* onChange of the Value field.
setNewValue(text) ==
  /\ newValue' = numberInputValue(text)
  /\ download' = NoDownload
  /\ alerted' = FALSE
  /\ lastOp' = Op("setNewValue", 0, <<>>)
  /\ UNCHANGED << data, newName, selectedTemplate, pending >>

\* addDataPoint putting the new point in front.
addDataPointInFront ==
  /\ Len(data) < MaxData
  /\ IF newName # <<>> /\ newValue # <<>>
     THEN /\ data' = << [name |-> newName, value |-> Number(newValue)] >> \o data
          /\ newName' = <<>>
          /\ newValue' = <<>>
          /\ lastOp' = Op("addDataPoint", 1, <<>>)
     ELSE /\ UNCHANGED << data, newName, newValue >>
          /\ lastOp' = Op("addDataPoint", 0, <<>>)
  /\ download' = NoDownload
  /\ alerted' = FALSE
  /\ UNCHANGED << selectedTemplate, pending >>

\* arg of lastOp: 1 when the point was appended, 0 when the click did nothing.
addDataPoint ==
  /\ Len(data) < MaxData
  /\ IF newName # <<>> /\ newValue # <<>>
     THEN /\ data' = Append(data, [name |-> newName, value |-> Number(newValue)])
          /\ newName' = <<>>
          /\ newValue' = <<>>
          /\ lastOp' = Op("addDataPoint", 1, <<>>)
     ELSE /\ UNCHANGED << data, newName, newValue >>
          /\ lastOp' = Op("addDataPoint", 0, <<>>)
  /\ download' = NoDownload
  /\ alerted' = FALSE
  /\ UNCHANGED << selectedTemplate, pending >>

\* data.filter((_, i) => i !== index), i counting from 0.
RECURSIVE filterIndex(_, _, _)
filterIndex(points, i, index) ==
  IF points = <<>> THEN <<>>
  ELSE (IF i # index THEN <<Head(points)>> ELSE <<>>)
         \o filterIndex(Tail(points), i + 1, index)

\* removeDataPoint counting the positions from 1.
removeDataPointFromOne(index) ==
  /\ data' = filterIndex(data, 1, index)
  /\ download' = NoDownload
  /\ alerted' = FALSE
  /\ lastOp' = Op("removeDataPoint", index, <<>>)
  /\ UNCHANGED << newName, newValue, selectedTemplate, pending >>

removeDataPoint(index) ==
  /\ data' = filterIndex(data, 0, index)
  /\ download' = NoDownload
  /\ alerted' = FALSE
  /\ lastOp' = Op("removeDataPoint", index, <<>>)
  /\ UNCHANGED << newName, newValue, selectedTemplate, pending >>

\* loadTemplate keeping the prior Dataset in front of the example.
loadTemplateKeepingData(t) ==
  /\ selectedTemplate' = t
  /\ data' = data \o templates[t].example
  /\ download' = NoDownload
  /\ alerted' = FALSE
  /\ lastOp' = Op("loadTemplate", t, <<>>)
  /\ UNCHANGED << newName, newValue, pending >>

loadTemplate(t) ==
  /\ selectedTemplate' = t
  /\ data' = templates[t].example
  /\ download' = NoDownload
  /\ alerted' = FALSE
  /\ lastOp' = Op("loadTemplate", t, <<>>)
  /\ UNCHANGED << newName, newValue, pending >>

\* downloadTemplate as the render that holds `selected` created it.
downloadTemplate(selected) ==
  IF selected = NoTemplate THEN NoDownload ELSE templateDownload(selected)

\* onClick of the Template button of template t: setSelectedTemplate(t) takes
\* effect with the next render; downloadTemplate() is the closure of the
\* render that drew the button and reads that render's selectedTemplate.
templateButton(t) ==
  /\ selectedTemplate' = t
  /\ download' = downloadTemplate(selectedTemplate)
  /\ alerted' = FALSE
  /\ lastOp' = Op("templateButton", t, <<>>)
  /\ UNCHANGED << data, newName, newValue, pending >>

\* handleFileUpload clearing the Dataset as soon as a file is selected.
handleFileUploadClearing(content) ==
  /\ Len(pending) < MaxPending
  /\ pending' = Append(pending, content)
  /\ data' = <<>>
  /\ download' = NoDownload
  /\ alerted' = FALSE
  /\ lastOp' = Op("handleFileUpload", Len(pending) + 1, <<>>)
  /\ UNCHANGED << newName, newValue, selectedTemplate >>

\* onChange of the file input: a new FileReader starts reading the file.
\* (With no file selected the handler does nothing at all.)
handleFileUpload(content) ==
  /\ Len(pending) < MaxPending
  /\ pending' = Append(pending, content)
  /\ download' = NoDownload
  /\ alerted' = FALSE
  /\ lastOp' = Op("handleFileUpload", Len(pending) + 1, <<>>)
  /\ UNCHANGED << data, newName, newValue, selectedTemplate >>

RemoveAt(s, k) == SubSeq(s, 1, k - 1) \o SubSeq(s, k + 1, Len(s))

\* reader.onload of the k-th read in flight.  The content of a completed
\* readAsText is a string, on which nothing in the try block throws, so the
\* catch block and its alert() are never entered.
readerOnLoad(k) ==
  /\ data' = parseCsv(pending[k])
  /\ pending' = RemoveAt(pending, k)
  /\ download' = NoDownload
  /\ alerted' = FALSE
  /\ lastOp' = Op("readerOnLoad", k, pending[k])
  /\ UNCHANGED << newName, newValue, selectedTemplate >>

\* The k-th read in flight fails: the reader fires its error event, for
\* which handleFileUpload registered no handler.
readerOnError(k) ==
  /\ pending' = RemoveAt(pending, k)
  /\ download' = NoDownload
  /\ alerted' = FALSE
  /\ lastOp' = Op("readerOnError", k, <<>>)
  /\ UNCHANGED << data, newName, newValue, selectedTemplate >>

Next ==
  \/ \E text \in TypedNames : setNewName(text)
  \/ \E text \in TypedValues : setNewValue(text)
  \/ addDataPoint
  \/ \E index \in 0..(Len(data) - 1) : removeDataPoint(index)
  \/ \E t \in Templates : loadTemplate(t)
  \/ \E t \in Templates : templateButton(t)
  \/ \E content \in SampleFiles : handleFileUpload(content)
  \/ \E k \in 1..Len(pending) : readerOnLoad(k)
  \/ \E k \in 1..Len(pending) : readerOnError(k)

Spec == Init /\ [][Next]_vars

\* The parser alone: one read in flight of every content of CsvTexts, over an
\* empty Dataset and over a loaded template.
InitCsv ==
  /\ data \in { <<>>, templates[1].example }
  /\ newName = <<>>
  /\ newValue = <<>>
  /\ selectedTemplate = NoTemplate
  /\ \E content \in CsvTexts :
       /\ pending = << content >>
       /\ lastOp = Op("handleFileUpload", 1, <<>>)
  /\ download = NoDownload
  /\ alerted = FALSE

NextCsv == \E k \in 1..Len(pending) : readerOnLoad(k)

SpecCsv == InitCsv /\ [][NextCsv]_vars

\* ------------------------------------------------------------------------
\* Properties of importCsv (checked under SpecCsv).
\* ------------------------------------------------------------------------
Loaded == lastOp.op = "readerOnLoad"

\* The lines of the content a completed read delivered.
LoadedLines == split(lastOp.text, "\n")

RECURSIVE RowsOf(_)
RowsOf(lines) ==
  IF lines = <<>> THEN <<>> ELSE parseLine(Head(lines)) \o RowsOf(Tail(lines))

\* C1: after importCsv completes, the Dataset is exactly the rows, in file
\* order, of the lines after the first that are non-blank and whose value
\* field coerces to a number; the first line contributes nothing, a rejected
\* row does not stop later rows, and nothing of the prior Dataset remains.
C1_ImportReplacesWithAcceptedRows ==
  Loaded => data = RowsOf(Tail(LoadedLines))

\* The example of the specification was imported: a rejected row lies between
\* accepted rows, and the header is gone.
C1_Witness ==
  /\ Loaded
  /\ lastOp.text = SpecExampleFile
  /\ Len(data) = 3
  /\ data[1] = DataPoint(<<"J", "a", "n">>, 1200)
  /\ data[3] = DataPoint(<<"M", "a", "r">>, 1600)

\* Position of the first c in s at or after position from; 0 when there is
\* none.
IndexFrom(s, c, from) ==
  IF \E i \in from..Len(s) : s[i] = c
  THEN CHOOSE i \in from..Len(s) :
         s[i] = c /\ \A j \in from..(i - 1) : s[j] # c
  ELSE 0

CommaCount(s) == Cardinality({ i \in 1..Len(s) : s[i] = "," })

\* The row of a line whose label is the text before its first comma and
\* whose value text is valueText.
RowWith(line, valueText) ==
  LET c1 == IndexFrom(line, ",", 1)
      value == Number(valueText)
  IN IF c1 = 0 \/ isNaN(value) THEN <<>>
     ELSE << [name |-> trim(SubSeq(line, 1, c1 - 1)), value |-> value] >>

\* The value text is everything after the first comma.
RowSplitAtFirstComma(rawLine) ==
  LET line == trim(rawLine)
      c1 == IndexFrom(line, ",", 1)
  IN IF line = <<>> THEN <<>>
     ELSE RowWith(line, SubSeq(line, c1 + 1, Len(line)))

\* The value text lies between the first comma and the second (or the end
\* of the line).
RowOfFirstTwoFields(rawLine) ==
  LET line == trim(rawLine)
      c1 == IndexFrom(line, ",", 1)
      c2 == IF c1 = 0 THEN 0 ELSE IndexFrom(line, ",", c1 + 1)
  IN IF line = <<>> THEN <<>>
     ELSE RowWith(line, SubSeq(line, c1 + 1, IF c2 = 0 THEN Len(line) ELSE c2 - 1))

RECURSIVE RowsSplitAtFirstComma(_)
RowsSplitAtFirstComma(lines) ==
  IF lines = <<>> THEN <<>>
  ELSE RowSplitAtFirstComma(Head(lines)) \o RowsSplitAtFirstComma(Tail(lines))

RECURSIVE RowsOfFirstTwoFields(_)
RowsOfFirstTwoFields(lines) ==
  IF lines = <<>> THEN <<>>
  ELSE RowOfFirstTwoFields(Head(lines)) \o RowsOfFirstTwoFields(Tail(lines))

\* C2 as stated: each data line is split on its first comma only, so the
\* value field of a line with two or more commas holds the later commas,
\* fails coercion, and the line gives no row.
C2_SplitOnFirstCommaOnly ==
  Loaded => data = RowsSplitAtFirstComma(Tail(LoadedLines))

\* C2 as amended: each data line is split on every comma and its first two
\* trimmed fields are the label and the value text, later fields being
\* ignored; a line with two or more commas gives a row exactly when the text
\* between its first and second comma coerces to a number.
C2_FirstTwoFieldsOfEveryComma ==
  Loaded => data = RowsOfFirstTwoFields(Tail(LoadedLines))

\* A file whose only data line has two commas was imported, and the line
\* gave a row.
C2_Witness ==
  /\ Loaded
  /\ Len(LoadedLines) = 2
  /\ CommaCount(LoadedLines[2]) >= 2
  /\ Len(data) = 1

\* C6: importing the text downloadTemplate produces for a built-in template
\* gives back the template's example: same length, order, labels, values.
C6_TemplateRoundTrip ==
  Loaded =>
    \A t \in Templates :
      lastOp.text = templateCsv(t) => data = templates[t].example

\* The file of the Weekly Traffic template was imported.
C6_Witness ==
  /\ Loaded
  /\ lastOp.text = templateCsv(3)
  /\ Len(data) = 5
  /\ data[5] = DataPoint(<<"F", "r", "i">>, 3200)

\* ------------------------------------------------------------------------
\* Properties of the component (checked under Spec).
\* ------------------------------------------------------------------------
\* A number that is neither NaN nor an infinity.
isFinite(v) == v.kind = "finite"

\* C3: in every reachable state every DataPoint of the Dataset has a finite
\* value: never NaN, never +Infinity or -Infinity.
C3_EveryValueFinite ==
  \A i \in 1..Len(data) : isFinite(data[i].value)

\* C4: the Template button of template t offers the file of t, its rows
\* t's example and its name derived from t's name, whatever template was
\* loaded or downloaded before, including when none was.
C4_TemplateButtonOffersClickedTemplate ==
  lastOp.op = "templateButton" => download = templateDownload(lastOp.arg)

\* C5: when a file read fails, the failure is reported through a blocking
\* notification and the Dataset is left as it was.
C5_ReadFailureNotified ==
  [][lastOp'.op = "readerOnError" => (alerted' /\ data' = data)]_vars

\* C7: with a non-empty label and a non-empty numeric value, appendPoint
\* yields the old Dataset, unchanged and in order, followed by one new
\* element {label, Number(rawValue)}.
C7_AppendPoint ==
  [][(/\ lastOp'.op = "addDataPoint"
      /\ newName # <<>>
      /\ newValue # <<>>
      /\ ~isNaN(Number(newValue)))
     => (/\ Len(data') = Len(data) + 1
         /\ data'[Len(data')] = [name |-> newName, value |-> Number(newValue)]
         /\ SubSeq(data', 1, Len(data)) = data)]_vars

\* A point was appended behind an existing one.
C7_Witness ==
  /\ lastOp = Op("addDataPoint", 1, <<>>)
  /\ Len(data) = 2
  /\ data[2] = DataPoint(<<"a">>, -3)

\* C8: loadTemplate(t) sets the Dataset exactly equal to t.example, with no
\* element of the prior Dataset remaining.
C8_LoadTemplateReplaces ==
  lastOp.op = "loadTemplate" => data = templates[lastOp.arg].example

\* A template was loaded while a read was in flight.
C8_Witness ==
  /\ lastOp = Op("loadTemplate", 2, <<>>)
  /\ Len(data) = 4
  /\ data[1] = DataPoint(<<"E", "l", "e", "c", "t", "r", "o", "n", "i", "c", "s">>, 5400)
  /\ pending # <<>>

\* C9: removePoint(i) on a Dataset of length n, 0 <= i < n, yields the old
\* Dataset without its element at position i: length n - 1, the other
\* elements keeping their values and their relative order.
C9_RemovePoint ==
  [][(lastOp'.op = "removeDataPoint" /\ lastOp'.arg \in 0..(Len(data) - 1))
     => (/\ Len(data') = Len(data) - 1
         /\ \A j \in 1..Len(data') :
              data'[j] = IF j <= lastOp'.arg THEN data[j] ELSE data[j + 1])]_vars

\* The second of the four points of a template was removed.
C9_Witness ==
  /\ lastOp = Op("removeDataPoint", 1, <<>>)
  /\ data = << DataPoint(<<"J", "a", "n">>, 1200), DataPoint(<<"M", "a", "r">>, 1600),
               DataPoint(<<"A", "p", "r">>, 2100) >>

\* C10: selecting a file does not change the Dataset, and the completion of
\* a read, whichever of the reads in flight it is, replaces the Dataset with
\* that read's parse result: the read that completes last decides the
\* Dataset, whatever the order of selection.
C10_LastCompletedReadWins ==
  [][/\ lastOp'.op = "handleFileUpload" => data' = data
     /\ lastOp'.op = "readerOnLoad" =>
          /\ lastOp'.arg \in 1..Len(pending)
          /\ lastOp'.text = pending[lastOp'.arg]
          /\ data' = parseCsv(lastOp'.text)
          /\ pending' = RemoveAt(pending, lastOp'.arg)]_vars

\* The file selected second completed first, while the other read, of a
\* different file, is still in flight.
C10_Witness ==
  /\ lastOp.op = "readerOnLoad"
  /\ lastOp.arg = 2
  /\ Len(pending) = 1
  /\ pending[1] # lastOp.text
  /\ data = parseCsv(lastOp.text)
  /\ data # parseCsv(pending[1])

====
